---- MODULE Spec2Model ----
(***************************************************************************)
(* Model of OutdatedVersionAlertService                                    *)
(* (packages/amplication-server/src/core/outdatedVersionAlert).            *)
(*                                                                         *)
(* The alert table is a sequence of rows; the id of a row is its position. *)
(* Spec runs whole, non-overlapping invocations of the service's methods.  *)
(* SpecRace runs overlapping invocations of create, one store call per     *)
(* step (every await of create is an interleaving point).                  *)
(***************************************************************************)
EXTENDS Integers, Sequences, FiniteSets, TLC

VARIABLES alerts, emitted, logged, last, world, pc, call, clock, stamp

vars == <<alerts, emitted, logged, last, world, pc, call, clock, stamp>>

----------------------------------------------------------------------------
(* Bounds *)

\* rows the alert table may hold
MaxAlerts == 3

\* overlapping invocations of create in SpecRace
MaxProcs == 2

----------------------------------------------------------------------------
(* Values *)

\* a column that holds SQL NULL / a reference that resolves to nothing
Null == "null"

\* a property the caller left out (args.data.block?.connect?.id is undefined)
Undefined == "undefined"

EnumOutdatedVersionAlertStatus == {"New", "Canceled", "Resolved"}

EnumOutdatedVersionAlertType == {"TemplateVersion", "PluginVersion"}

TemplateId == "t1"

ServiceIds == {"s1", "s2"}

ResourceIds == {TemplateId} \cup ServiceIds

\* an id no resource has
MissingId == "zz"

ProjectIds == {"p1", "p2"}

BlockIds == {"b1", "b2", "b3"}

PluginIds == {"plugin-aws-s3", "plugin-db"}

LatestVersions == {"1.1.0"}

\* the plugin installation blocks: two installations of one plugin on s1,
\* one installation of another plugin on s2
pluginInstallations ==
  [b \in BlockIds |->
     CASE b = "b1" -> [id |-> "b1", resourceId |-> "s1", pluginId |-> "plugin-aws-s3", version |-> "1.0.0"]
       [] b = "b2" -> [id |-> "b2", resourceId |-> "s1", pluginId |-> "plugin-aws-s3", version |-> "0.9.0"]
       [] OTHER    -> [id |-> "b3", resourceId |-> "s2", pluginId |-> "plugin-db", version |-> "1.0.0"]]

\* a resource table: the template t1 in project p1, service s1 in p1 and
\* service s2 in project p2
ResourceTable(t1, t2, p2) ==
  [r \in ResourceIds |->
     IF r = TemplateId
       THEN [id |-> r, resourceType |-> "ServiceTemplate", projectId |-> "p1",
             serviceTemplateId |-> Null, version |-> Null]
     ELSE IF r = "s1"
       THEN [id |-> r, resourceType |-> "Service", projectId |-> "p1",
             serviceTemplateId |-> t1, version |-> "1.0.0"]
       ELSE [id |-> r, resourceType |-> "Service", projectId |-> p2,
             serviceTemplateId |-> t2, version |-> "0.9.0"]]

\* the resource tables the service may run against: no service, one service
\* or two services use the template in its project
Worlds ==
  { ResourceTable(Null, TemplateId, "p2"),
    ResourceTable(TemplateId, TemplateId, "p2"),
    ResourceTable(TemplateId, TemplateId, "p1") }

----------------------------------------------------------------------------
(* Sequences *)

\* the sequences that enumerate the set S, each element once
Orders(S) ==
  {s \in [1..Cardinality(S) -> S] : \A x \in S : \E i \in DOMAIN s : s[i] = x}

----------------------------------------------------------------------------
(* create: the where clause, updateMany and the insert *)

\* updateMany's where clause ignores blockId
createWhereAnyBlock(data, a) ==
  /\ a.resourceId = data.resourceId
  /\ a.type = data.type
  /\ a.status = "New"

\* updateMany's where clause matches no row
createWhereNothing(data, a) == FALSE

\* the where clause of create's updateMany: a key whose value is undefined is
\* no condition at all, so a create without block matches every blockId
createWhere(data, a) ==
  /\ a.resourceId = data.resourceId
  /\ (data.block # Undefined => a.blockId = data.block)
  /\ a.type = data.type
  /\ a.status = "New"

\* updateMany writes Resolved
updateManyCanceledAsResolved(store, data) ==
  [i \in DOMAIN store |->
     IF createWhere(data, store[i])
       THEN [store[i] EXCEPT !.status = "Resolved"]
       ELSE store[i]]

\* prisma.outdatedVersionAlert.updateMany of create
updateManyCanceled(store, data) ==
  [i \in DOMAIN store |->
     IF createWhere(data, store[i])
       THEN [store[i] EXCEPT !.status = "Canceled"]
       ELSE store[i]]

\* the row prisma.outdatedVersionAlert.create writes
newRow(store, data) ==
  [id |-> Len(store) + 1,
   resourceId |-> data.resourceId,
   blockId |-> IF data.block = Undefined THEN Null ELSE data.block,
   type |-> data.type,
   status |-> "New",
   outdatedVersion |-> data.outdatedVersion,
   latestVersion |-> data.latestVersion]

\* the insert cancels the scope's New rows in the same store call
prismaCreateInOneTransaction(store, data) ==
  Append(updateManyCanceled(store, data), newRow(store, data))

\* prisma.outdatedVersionAlert.create of create
prismaCreate(store, data) == Append(store, newRow(store, data))

\* create, run without interleaving; the created alert is the last row
create(store, data) == prismaCreate(updateManyCanceled(store, data), data)

----------------------------------------------------------------------------
(* resolvesServiceTemplateUpdated *)

\* the where clause leaves the type out
resolveWhereAnyType(resourceId, a) ==
  /\ a.resourceId = resourceId
  /\ a.status = "New"

\* the where clause of resolvesServiceTemplateUpdated's updateMany
resolveWhere(resourceId, a) ==
  /\ a.resourceId = resourceId
  /\ a.type = "TemplateVersion"
  /\ a.status = "New"

resolvesServiceTemplateUpdated(store, resourceId) ==
  [i \in DOMAIN store |->
     IF resolveWhere(resourceId, store[i])
       THEN [store[i] EXCEPT !.status = "Resolved"]
       ELSE store[i]]

----------------------------------------------------------------------------
(* Lookups of the collaborators, read from the resource tables *)

\* what a lookup by id gives when nothing has that id (null in the code)
NoResource ==
  [id |-> Null, resourceType |-> Null, projectId |-> Null,
   serviceTemplateId |-> Null, version |-> Null]

\* resourceService.resource: the resource with that id, or null
resource(w, id) == IF id \in DOMAIN w THEN w[id] ELSE NoResource

\* resourceService.resources: the services that use the template, in the
\* template's project
resources(w, templateResourceId, projectId) ==
  {s \in DOMAIN w : /\ w[s].serviceTemplateId = templateResourceId
                    /\ w[s].projectId = projectId}

\* pluginInstallationService.findPluginInstallationByPluginId: the
\* installations of the plugin on resources of the project
findPluginInstallationByPluginId(w, pluginId, projectId) ==
  {b \in BlockIds : /\ pluginInstallations[b].pluginId = pluginId
                    /\ w[pluginInstallations[b].resourceId].projectId = projectId}

\* no call fails
NoFault == [at |-> 0, call |-> "none"]

\* the calls of one iteration that may throw, template trigger
TemplateCalls == {"getServiceTemplateSettings", "updateMany", "create"}

\* the calls of one iteration that may throw, plugin trigger
PluginCalls == {"updateMany", "create", "resource"}

Faults(n, calls) == {NoFault} \cup [at : 1..n, call : calls]

\* the iterations that reach their emission: all of them, or those before
\* the one that throws
Emitting(n, fault) == IF fault.at = 0 THEN 1..n ELSE 1..(fault.at - 1)

----------------------------------------------------------------------------
(* The fan-out loops.  A loop state st holds the alert table, the events   *)
(* handed to the producer, the errors logged, the trace of store writes    *)
(* and emissions of this invocation, and the outcome so far.               *)

\* a trace entry: the call, the id of the alert it wrote or carried, and the
\* ids of the rows an updateMany changed
Traced(c, alertId, changed) == [call |-> c, id |-> alertId, ids |-> changed]

LoopStart(store) ==
  [alerts |-> store, emitted |-> <<>>, logged |-> <<>>, trace |-> <<>>, result |-> "ok"]

\* the error of a collaborator is wrapped in the service's own error
ThrowWrapped(st) == [st EXCEPT !.result = "AmplicationError"]

\* the error of a collaborator leaves the method; nothing is rolled back
Throw(st) == [st EXCEPT !.result = "Error"]

\* a rejected emission leaves the method as an error
emitMessageRethrow(st, event, key, rejected) ==
  [st EXCEPT !.emitted = Append(@, [event EXCEPT !.rejected = rejected]),
             !.trace = Append(@, Traced("emit", event.techDebtId, {})),
             !.result = IF rejected THEN "Error" ELSE "ok"]

\* kafkaProducerService.emitMessage(...).catch(logger.error): the event is
\* handed over; a rejection is logged under the target's id and goes nowhere
emitMessage(st, event, key, rejected) ==
  [st EXCEPT !.emitted = Append(@, [event EXCEPT !.rejected = rejected]),
             !.logged = IF rejected THEN Append(@, key) ELSE @,
             !.trace = Append(@, Traced("emit", event.techDebtId, {}))]

\* the event carries the id of the alert before the created one
templateEventStaleId(service, alert) ==
  [resourceId |-> service.id, techDebtId |-> alert.id - 1,
   alertType |-> alert.type, rejected |-> FALSE]

\* the TechDebt.KafkaEvent value of the template trigger (the fields that
\* identify the alert and its resource)
templateEvent(service, alert) ==
  [resourceId |-> service.id, techDebtId |-> alert.id,
   alertType |-> alert.type, rejected |-> FALSE]

\* the TechDebt.KafkaEvent value of the plugin trigger
pluginEvent(pluginInstallation, alert) ==
  [resourceId |-> pluginInstallation.resourceId, techDebtId |-> alert.id,
   alertType |-> alert.type, rejected |-> FALSE]

\* the create arguments of the template trigger: no block; the outdated
\* version is the service's current template version
templateData(service, latestVersion) ==
  [resourceId |-> service.id, block |-> Undefined, type |-> "TemplateVersion",
   outdatedVersion |-> service.version, latestVersion |-> latestVersion]

\* the create arguments of the plugin trigger
pluginData(pluginInstallation, newVersion) ==
  [resourceId |-> pluginInstallation.resourceId, block |-> pluginInstallation.id,
   type |-> "PluginVersion", outdatedVersion |-> pluginInstallation.version,
   latestVersion |-> newVersion]

\* the ids of the rows create's updateMany changes
matched(store, data) == {i \in DOMAIN store : createWhere(data, store[i])}

\* this.create inside a loop: updateMany, then the insert; either may throw
createInLoop(st, data, fault, i) ==
  IF fault.at = i /\ fault.call = "updateMany" THEN Throw(st)
  ELSE LET canceled == [st EXCEPT !.alerts = updateManyCanceled(@, data),
                                  !.trace = Append(@, Traced("updateMany", 0, matched(st.alerts, data)))]
       IN IF fault.at = i /\ fault.call = "create" THEN Throw(canceled)
          ELSE [canceled EXCEPT
                  !.alerts = prismaCreate(@, data),
                  !.trace = Append(@, Traced("create", Len(canceled.alerts) + 1, {}))]

\* one iteration of the template trigger's loop
templateIteration(w, st, serviceId, latestVersion, rejects, fault, i) ==
  IF fault.at = i /\ fault.call = "getServiceTemplateSettings" THEN Throw(st)
  ELSE LET service == w[serviceId]
           created == createInLoop(st, templateData(service, latestVersion), fault, i)
           alert   == created.alerts[Len(created.alerts)]
       IN IF created.result # "ok" THEN created
          ELSE emitMessage(created, templateEvent(service, alert), serviceId, i \in rejects)

RECURSIVE templateLoop(_, _, _, _, _, _, _)
\* for (const service of services), from the i-th service on
templateLoop(w, st, services, latestVersion, rejects, fault, i) ==
  IF i > Len(services) \/ st.result # "ok" THEN st
  ELSE templateLoop(w, templateIteration(w, st, services[i], latestVersion, rejects, fault, i),
                    services, latestVersion, rejects, fault, i + 1)

\* one iteration of the plugin trigger's loop
pluginIteration(w, st, blockId, newVersion, rejects, fault, i) ==
  LET pluginInstallation == pluginInstallations[blockId]
      created == createInLoop(st, pluginData(pluginInstallation, newVersion), fault, i)
      alert   == created.alerts[Len(created.alerts)]
  IN IF created.result # "ok" THEN created
     ELSE IF fault.at = i /\ fault.call = "resource" THEN Throw(created)
     ELSE emitMessage(created, pluginEvent(pluginInstallation, alert), blockId, i \in rejects)

RECURSIVE pluginLoop(_, _, _, _, _, _, _)
\* for (const pluginInstallation of pluginInstallations), from the i-th on
pluginLoop(w, st, installations, newVersion, rejects, fault, i) ==
  IF i > Len(installations) \/ st.result # "ok" THEN st
  ELSE pluginLoop(w, pluginIteration(w, st, installations[i], newVersion, rejects, fault, i),
                  installations, newVersion, rejects, fault, i + 1)

\* the template check accepts any resource that exists
templateCheckExistsOnly(template) ==
  IF template = NoResource THEN "AmplicationError" ELSE "ok"

\* the two guards of triggerAlertsForTemplateVersion
templateCheck(template) ==
  IF template = NoResource THEN "AmplicationError"
  ELSE IF template.resourceType # "ServiceTemplate" THEN "AmplicationError"
  ELSE "ok"

\* the loop runs whatever outdatedVersion is
alertsWantedAlways(outdatedVersion) == TRUE

\* if (outdatedVersion !== null)
alertsWanted(outdatedVersion) == outdatedVersion # Null

\* triggerAlertsForTemplateVersion, given the order in which the store lists
\* the services, the emissions that reject and the call that throws
triggerAlertsForTemplateVersion(w, st, templateResourceId, outdatedVersion, latestVersion, services, rejects, fault) ==
  LET template == resource(w, templateResourceId)
  IN IF templateCheck(template) # "ok"
       THEN [st EXCEPT !.result = templateCheck(template)]
     ELSE IF alertsWanted(outdatedVersion)
       THEN templateLoop(w, st, services, latestVersion, rejects, fault, 1)
     ELSE st

\* triggerAlertsForNewPluginVersion, given the order of the installations,
\* the emissions that reject and the call that throws
triggerAlertsForNewPluginVersion(w, st, newVersion, installations, rejects, fault) ==
  pluginLoop(w, st, installations, newVersion, rejects, fault, 1)

----------------------------------------------------------------------------
(* State *)

\* the create arguments of an invocation that is not a create
NoData ==
  [resourceId |-> Null, block |-> Null, type |-> Null,
   outdatedVersion |-> Null, latestVersion |-> Null]

\* the record of the last invocation: its arguments and inputs (the order of
\* the targets, the emissions that reject, the call that throws), the trace
\* of its store writes and emissions, and its outcome
NoCall ==
  [op |-> "none", data |-> NoData, id |-> Null, plugin |-> Null, version |-> Null,
   targets |-> <<>>, rejects |-> {}, fault |-> NoFault,
   trace |-> <<>>, result |-> "ok"]

Procs == 1..MaxProcs

NoStamp == [updateMany |-> 0, create |-> 0, alert |-> 0]

\* the arguments create is called with directly: an alert on service s1,
\* with or without a block; a template alert names no block
CreateData ==
  {d \in [resourceId : {"s1"}, block : {Undefined, "b1"},
          type : EnumOutdatedVersionAlertType,
          outdatedVersion : {"1.0.0"}, latestVersion : LatestVersions] :
     d.type = "TemplateVersion" => d.block = Undefined}

\* the arguments triggerAlertsForTemplateVersion is called with: the
\* template with and without an outdated version, a service, a missing id
TemplateInputs ==
  {<<TemplateId, "1.0.0">>, <<TemplateId, Null>>, <<"s1", "1.0.0">>, <<MissingId, "1.0.0">>}

\* the arguments of the overlapping creates
RaceData ==
  [resourceId : {"s1"}, block : {Undefined, "b1"}, type : {"PluginVersion"},
   outdatedVersion : {"1.0.0"}, latestVersion : LatestVersions]

\* alerts: the alert table.  emitted, logged: the events the last invocation
\* handed to the producer and the errors it logged.
Init ==
  /\ alerts = <<>>
  /\ emitted = <<>>
  /\ logged = <<>>
  /\ last = NoCall
  /\ world \in Worlds
  /\ pc = [p \in Procs |-> "idle"]
  /\ call = [p \in Procs |-> NoData]
  /\ clock = 0
  /\ stamp = [p \in Procs |-> NoStamp]

raceVars == <<pc, call, clock, stamp>>

----------------------------------------------------------------------------
(* Whole invocations *)

\* create(args) called directly
Create ==
  \E data \in CreateData :
    /\ Len(alerts) < MaxAlerts
    /\ alerts' = create(alerts, data)
    /\ emitted' = <<>>
    /\ logged' = <<>>
    /\ last' = [NoCall EXCEPT !.op = "create", !.data = data,
                              !.trace = <<Traced("updateMany", 0, matched(alerts, data)),
                                          Traced("create", Len(alerts) + 1, {})>>]
    /\ UNCHANGED <<world, raceVars>>

\* resolvesServiceTemplateUpdated({resourceId})
ResolvesServiceTemplateUpdated ==
  \E resourceId \in ServiceIds :
    /\ alerts' = resolvesServiceTemplateUpdated(alerts, resourceId)
    /\ emitted' = <<>>
    /\ logged' = <<>>
    /\ last' = [NoCall EXCEPT !.op = "resolvesServiceTemplateUpdated", !.id = resourceId]
    /\ UNCHANGED <<world, raceVars>>

\* triggerAlertsForTemplateVersion(templateResourceId, outdatedVersion,
\* latestVersion, userId); userId only reaches the event's externalId.
\* calls: the calls of the loop that may throw in this run
TriggerAlertsForTemplateVersion(calls) ==
  \E input \in TemplateInputs, latestVersion \in LatestVersions :
    LET templateResourceId == input[1]
        outdatedVersion == input[2]
        template == resource(world, templateResourceId)
        found    == resources(world, templateResourceId, template.projectId)
        runs     == templateCheck(template) = "ok" /\ alertsWanted(outdatedVersion)
    IN \E services \in Orders(found) :
       \E fault \in Faults(IF runs THEN Len(services) ELSE 0, calls) :
       \E rejects \in SUBSET Emitting(IF runs THEN Len(services) ELSE 0, fault) :
         LET st == triggerAlertsForTemplateVersion(
                     world, LoopStart(alerts), templateResourceId,
                     outdatedVersion, latestVersion, services, rejects, fault)
         IN /\ Len(alerts) + Len(services) <= MaxAlerts
            /\ alerts' = st.alerts
            /\ emitted' = st.emitted
            /\ logged' = st.logged
            /\ last' = [NoCall EXCEPT !.op = "triggerAlertsForTemplateVersion",
                                      !.id = templateResourceId,
                                      !.version = outdatedVersion,
                                      !.data = [NoData EXCEPT !.latestVersion = latestVersion],
                                      !.targets = services, !.rejects = rejects,
                                      !.fault = fault,
                                      !.trace = st.trace, !.result = st.result]
            /\ UNCHANGED <<world, raceVars>>

\* triggerAlertsForNewPluginVersion(projectId, pluginId, newVersion, userId)
TriggerAlertsForNewPluginVersion(calls) ==
  \E projectId \in ProjectIds, pluginId \in PluginIds, newVersion \in LatestVersions :
    LET found == findPluginInstallationByPluginId(world, pluginId, projectId)
    IN \E installations \in Orders(found) :
       \E fault \in Faults(Len(installations), calls) :
       \E rejects \in SUBSET Emitting(Len(installations), fault) :
         LET st == triggerAlertsForNewPluginVersion(
                     world, LoopStart(alerts), newVersion,
                     installations, rejects, fault)
         IN /\ Len(alerts) + Len(installations) <= MaxAlerts
            /\ alerts' = st.alerts
            /\ emitted' = st.emitted
            /\ logged' = st.logged
            /\ last' = [NoCall EXCEPT !.op = "triggerAlertsForNewPluginVersion",
                                      !.id = projectId, !.plugin = pluginId,
                                      !.data = [NoData EXCEPT !.latestVersion = newVersion],
                                      !.targets = installations, !.rejects = rejects,
                                      !.fault = fault,
                                      !.trace = st.trace, !.result = st.result]
            /\ UNCHANGED <<world, raceVars>>

\* every lookup and store call of the loops succeeds
Next ==
  \/ Create
  \/ ResolvesServiceTemplateUpdated
  \/ TriggerAlertsForTemplateVersion({})
  \/ TriggerAlertsForNewPluginVersion({})

Spec == Init /\ [][Next]_vars

\* a lookup or store call of a loop may throw
NextFaults ==
  \/ Create
  \/ ResolvesServiceTemplateUpdated
  \/ TriggerAlertsForTemplateVersion(TemplateCalls)
  \/ TriggerAlertsForNewPluginVersion(PluginCalls)

SpecFaults == Init /\ [][NextFaults]_vars

----------------------------------------------------------------------------
(* Overlapping invocations of create: each await is a step *)

\* a request enters create
CallCreate(p) ==
  \E data \in RaceData :
    /\ pc[p] = "idle"
    /\ pc' = [pc EXCEPT ![p] = "updateMany"]
    /\ call' = [call EXCEPT ![p] = data]
    /\ UNCHANGED <<alerts, emitted, logged, last, world, clock, stamp>>

\* await prisma.outdatedVersionAlert.updateMany(...)
UpdateManyStep(p) ==
  /\ pc[p] = "updateMany"
  /\ alerts' = updateManyCanceled(alerts, call[p])
  /\ clock' = clock + 1
  /\ stamp' = [stamp EXCEPT ![p].updateMany = clock + 1]
  /\ pc' = [pc EXCEPT ![p] = "create"]
  /\ UNCHANGED <<emitted, logged, last, world, call>>

\* await prisma.outdatedVersionAlert.create(...); return outdatedVersionAlert
CreateStep(p) ==
  /\ pc[p] = "create"
  /\ alerts' = prismaCreate(alerts, call[p])
  /\ clock' = clock + 1
  /\ stamp' = [stamp EXCEPT ![p].create = clock + 1, ![p].alert = Len(alerts) + 1]
  /\ pc' = [pc EXCEPT ![p] = "done"]
  /\ UNCHANGED <<emitted, logged, last, world, call>>

NextRace == \E p \in Procs : CallCreate(p) \/ UpdateManyStep(p) \/ CreateStep(p)

\* the store the overlapping creates start from: empty, or holding the alert
\* of an earlier create
InitRace ==
  /\ alerts \in {<<>>} \cup {create(<<>>, d) : d \in RaceData}
  /\ emitted = <<>>
  /\ logged = <<>>
  /\ last = NoCall
  /\ world = ResourceTable(TemplateId, TemplateId, "p1")
  /\ pc = [p \in Procs |-> "idle"]
  /\ call = [p \in Procs |-> NoData]
  /\ clock = 0
  /\ stamp = [p \in Procs |-> NoStamp]

SpecRace == InitRace /\ [][NextRace]_vars

----------------------------------------------------------------------------
(* Properties *)

\* the scope of an alert: (resourceId, blockId, type); a create without a
\* block is in the scope of the alerts that have no block
BlockOf(data) == IF data.block = Undefined THEN Null ELSE data.block

InScope(a, data) ==
  /\ a.resourceId = data.resourceId
  /\ a.blockId = BlockOf(data)
  /\ a.type = data.type

\* the New alerts of a table in the scope of data
NewInScope(store, data) ==
  {i \in DOMAIN store : InScope(store[i], data) /\ store[i].status = "New"}

\* C1: once a create that overlaps no other invocation returns, every alert
\* that was New in its scope (resourceId, blockId, type) is Canceled, and the
\* only New alert of the scope is the one create inserted and returned.
C1_CreatePostcondition ==
  [][last'.op = "create" =>
       LET d == last'.data
           returned == Len(alerts')
       IN /\ returned = Len(alerts) + 1
          /\ InScope(alerts'[returned], d)
          /\ \A i \in NewInScope(alerts, d) : alerts'[i].status = "Canceled"
          /\ NewInScope(alerts', d) = {returned}]_vars

\* a create has just canceled a New alert of its own scope
C1_Witness ==
  /\ last.op = "create"
  /\ \E i \in last.trace[1].ids :
       /\ InScope(alerts[i], last.data)
       /\ alerts[i].status = "Canceled"
  /\ alerts[Len(alerts)].status = "New"

\* C2: between non-overlapping invocations of create,
\* resolvesServiceTemplateUpdated and the two triggers, no two alerts with
\* status New have the same (resourceId, blockId, type).
C2_AtMostOneNewPerScope ==
  \A i, j \in DOMAIN alerts :
    (/\ i # j
     /\ alerts[i].status = "New"
     /\ alerts[j].status = "New")
    => ~ (/\ alerts[i].resourceId = alerts[j].resourceId
          /\ alerts[i].blockId = alerts[j].blockId
          /\ alerts[i].type = alerts[j].type)

\* a scope holds a superseded alert and its New successor, beside a New alert
\* of another scope
C2_Witness ==
  \E i, j, k \in DOMAIN alerts :
    /\ i < j
    /\ alerts[i].status = "Canceled"
    /\ alerts[j].status = "New"
    /\ alerts[i].resourceId = alerts[j].resourceId
    /\ alerts[i].blockId = alerts[j].blockId
    /\ alerts[i].type = alerts[j].type
    /\ alerts[k].status = "New"
    /\ k # j

SameScope(d, e) ==
  /\ d.resourceId = e.resourceId
  /\ d.block = e.block
  /\ d.type = e.type

\* p and q are returned creates of one scope, each of which ran its
\* updateMany before the other ran its insert
Overlapped(p, q) ==
  /\ p # q
  /\ pc[p] = "done"
  /\ pc[q] = "done"
  /\ SameScope(call[p], call[q])
  /\ stamp[p].updateMany < stamp[q].create
  /\ stamp[q].updateMany < stamp[p].create

\* no third create has run its updateMany after an insert of p or q
Undisturbed(p, q) ==
  \A r \in Procs \ {p, q} :
    \/ stamp[r].updateMany = 0
    \/ /\ stamp[r].updateMany < stamp[p].create
       /\ stamp[r].updateMany < stamp[q].create

\* C3: updateMany and the insert of create are two store calls with nothing
\* around them: when two creates of one scope both run updateMany before
\* either inserts, then after both have returned both inserted alerts are
\* New, two New alerts in one scope.
C3_OverlappingCreatesLeaveTwoNew ==
  \A p, q \in Procs :
    (Overlapped(p, q) /\ Undisturbed(p, q)) =>
      /\ stamp[p].alert # stamp[q].alert
      /\ {stamp[p].alert, stamp[q].alert} \subseteq NewInScope(alerts, call[p])

\* two overlapped creates have returned over a store that held a New alert
\* of their scope; the scope now has two New alerts
C3_Witness ==
  \E p, q \in Procs :
    /\ Overlapped(p, q)
    /\ Cardinality(NewInScope(alerts, call[p])) = 2
    /\ \E i \in DOMAIN alerts : InScope(alerts[i], call[p]) /\ alerts[i].status = "Canceled"

\* the template trigger was called with the id of no resource, or of a
\* resource that is not a service template
NotATemplate(c) ==
  /\ c.op = "triggerAlertsForTemplateVersion"
  /\ \/ c.id \notin DOMAIN world
     \/ world[c.id].resourceType # "ServiceTemplate"

\* C4: triggerAlertsForTemplateVersion with an id that resolves to no
\* resource, or to a resource that is not a ServiceTemplate, fails with an
\* AmplicationError and leaves the alert table as it was; nothing is emitted.
C4_NotATemplateFailsWithoutEffect ==
  [][NotATemplate(last') =>
       /\ last'.result = "AmplicationError"
       /\ alerts' = alerts
       /\ emitted' = <<>>
       /\ last'.trace = <<>>]_vars

\* the trigger was called with the id of a service that has a New template
\* alert, and failed
C4_Witness ==
  /\ NotATemplate(last)
  /\ last.id \in ServiceIds
  /\ last.result = "AmplicationError"
  /\ \E i \in DOMAIN alerts :
       /\ alerts[i].resourceId = last.id
       /\ alerts[i].type = "TemplateVersion"
       /\ alerts[i].status = "New"

\* the services that use the template id in the template's project
ServicesOf(id) ==
  {s \in ServiceIds : /\ world[s].serviceTemplateId = id
                      /\ world[s].projectId = world[id].projectId}

\* the template trigger was called on a service template
OnTemplate(c) ==
  /\ c.op = "triggerAlertsForTemplateVersion"
  /\ c.id \in DOMAIN world
  /\ world[c.id].resourceType = "ServiceTemplate"

\* C5: triggerAlertsForTemplateVersion on a service template with
\* outdatedVersion = null creates no alert, changes no alert and emits
\* nothing, however many services use the template.
C5_NullOutdatedVersionDoesNothing ==
  [][(OnTemplate(last') /\ last'.version = Null) =>
       /\ alerts' = alerts
       /\ emitted' = <<>>
       /\ last'.trace = <<>>]_vars

\* the trigger ran with outdatedVersion = null on a template that two
\* services use, one of which has a New template alert
C5_Witness ==
  /\ OnTemplate(last)
  /\ last.version = Null
  /\ Cardinality(ServicesOf(last.id)) = 2
  /\ \E i \in DOMAIN alerts :
       /\ alerts[i].resourceId \in ServicesOf(last.id)
       /\ alerts[i].type = "TemplateVersion"
       /\ alerts[i].status = "New"

\* C6: resolvesServiceTemplateUpdated(resourceId) sets to Resolved exactly
\* the alerts with that resourceId, type TemplateVersion and status New;
\* every other alert is unchanged, and no alert is created or deleted.
C6_ResolvesOnlyNewTemplateAlertsOfResource ==
  [][last'.op = "resolvesServiceTemplateUpdated" =>
       /\ DOMAIN alerts' = DOMAIN alerts
       /\ \A i \in DOMAIN alerts :
            IF /\ alerts[i].resourceId = last'.id
               /\ alerts[i].type = "TemplateVersion"
               /\ alerts[i].status = "New"
              THEN alerts'[i] = [alerts[i] EXCEPT !.status = "Resolved"]
              ELSE alerts'[i] = alerts[i]]_vars

\* after a resolve, the resource has a Resolved template alert and a New
\* plugin alert, and another resource still has its New template alert
C6_Witness ==
  /\ last.op = "resolvesServiceTemplateUpdated"
  /\ \E i, j, k \in DOMAIN alerts :
       /\ alerts[i].resourceId = last.id
       /\ alerts[i].type = "TemplateVersion"
       /\ alerts[i].status = "Resolved"
       /\ alerts[j].resourceId = last.id
       /\ alerts[j].type = "PluginVersion"
       /\ alerts[j].status = "New"
       /\ alerts[k].resourceId # last.id
       /\ alerts[k].type = "TemplateVersion"
       /\ alerts[k].status = "New"

\* the installations of the plugin in the project of a plugin trigger
InstallationsOf(c) ==
  {b \in BlockIds : /\ pluginInstallations[b].pluginId = c.plugin
                    /\ world[pluginInstallations[b].resourceId].projectId = c.id}

\* the targets of the last invocation's fan-out, as resource, block and
\* alert type: the services of the template, or the installations of the
\* plugin in the project
FanOutTargets(c) ==
  IF c.op = "triggerAlertsForTemplateVersion"
    THEN {[resourceId |-> s, blockId |-> Null, type |-> "TemplateVersion"] :
            s \in ServicesOf(c.id)}
    ELSE {[resourceId |-> pluginInstallations[b].resourceId, blockId |-> b,
           type |-> "PluginVersion"] : b \in InstallationsOf(c)}

\* the last invocation was a trigger whose loop ran, with no lookup or store
\* call failing
FanOutRan(c) ==
  /\ \/ OnTemplate(c) /\ c.version # Null
     \/ c.op = "triggerAlertsForNewPluginVersion"
  /\ c.fault = NoFault

\* the ids of the alerts the last invocation inserted
Created(c) == {c.trace[k].id : k \in {x \in DOMAIN c.trace : c.trace[x].call = "create"}}

\* the alerts the last invocation inserted for a target
CreatedFor(c, t) ==
  {a \in Created(c) : /\ alerts[a].resourceId = t.resourceId
                      /\ alerts[a].blockId = t.blockId
                      /\ alerts[a].type = t.type}

\* C7: whatever emissions of a fan-out over N targets reject, each of the N
\* targets gets its alert created and its emission attempted, and the
\* trigger returns without an error.
C7_RejectedEmissionsAbortNothing ==
  FanOutRan(last) =>
    /\ last.result = "ok"
    /\ Cardinality(last.rejects) = Len(logged)
    /\ Len(emitted) = Cardinality(FanOutTargets(last))
    /\ \A t \in FanOutTargets(last) :
         /\ CreatedFor(last, t) # {}
         /\ \E k \in DOMAIN emitted : emitted[k].techDebtId \in CreatedFor(last, t)

\* a fan-out over two targets in which the first emission rejected
C7_Witness ==
  /\ FanOutRan(last)
  /\ Cardinality(FanOutTargets(last)) = 2
  /\ 1 \in last.rejects
  /\ emitted[1].rejected
  /\ Len(emitted) = 2

\* C8: triggerAlertsForTemplateVersion on a service template with a non-null
\* outdatedVersion, all calls succeeding, inserts for each service of the
\* template exactly one alert (New, TemplateVersion, resourceId the service)
\* and emits exactly one event per service, with the service as resourceId and
\* the id of that service's alert as techDebtId, after that alert's insert.
C8_TemplateTriggerAlertThenEvent ==
  (OnTemplate(last) /\ last.version # Null /\ last.fault = NoFault) =>
    /\ Cardinality(Created(last)) = Cardinality(ServicesOf(last.id))
    /\ Len(emitted) = Cardinality(ServicesOf(last.id))
    /\ \A s \in ServicesOf(last.id) :
         LET mine == {a \in Created(last) : alerts[a].resourceId = s}
             events == {k \in DOMAIN emitted : emitted[k].resourceId = s}
         IN /\ Cardinality(mine) = 1
            /\ \A a \in mine : alerts[a].status = "New" /\ alerts[a].type = "TemplateVersion"
            /\ Cardinality(events) = 1
            /\ \A k \in events : emitted[k].techDebtId \in mine
    /\ \A k \in DOMAIN last.trace :
         last.trace[k].call = "emit" =>
           \E j \in 1..(k - 1) : /\ last.trace[j].call = "create"
                                 /\ last.trace[j].id = last.trace[k].id
    /\ Cardinality({k \in DOMAIN last.trace : last.trace[k].call = "emit"}) = Len(emitted)

\* the trigger ran over two services, one of which had a New template alert
\* that is now Canceled
C8_Witness ==
  /\ OnTemplate(last)
  /\ last.version # Null
  /\ Cardinality(ServicesOf(last.id)) = 2
  /\ Len(emitted) = 2
  /\ \E i \in DOMAIN alerts :
       /\ i \notin Created(last)
       /\ alerts[i].resourceId \in ServicesOf(last.id)
       /\ alerts[i].type = "TemplateVersion"
       /\ alerts[i].status = "Canceled"

C10_CreateChangesOnlyItsScope ==
  [][last'.op = "create" =>
       \A i \in DOMAIN alerts :
         ~ InScope(alerts[i], last'.data) => alerts'[i].status = alerts[i].status]_vars

\* a trigger's loop ran and a lookup or store call threw in its k-th
\* iteration, k = c.fault.at
FanOutFailed(c) ==
  /\ \/ OnTemplate(c) /\ c.version # Null
     \/ c.op = "triggerAlertsForNewPluginVersion"
  /\ c.fault.at >= 1

\* the alerts the last invocation inserted for its i-th target: the service,
\* or the installation's block
CreatedForTarget(c, i) ==
  {a \in Created(c) :
     IF c.op = "triggerAlertsForTemplateVersion"
       THEN alerts[a].resourceId = c.targets[i] /\ alerts[a].type = "TemplateVersion"
       ELSE alerts[a].blockId = c.targets[i] /\ alerts[a].type = "PluginVersion"}

\* the events of the last invocation that carry an alert of its i-th target
EventsForTarget(c, i) ==
  {e \in DOMAIN emitted : emitted[e].techDebtId \in CreatedForTarget(c, i)}

\* C11: a lookup or store failure in a fan-out is not isolated: when
\* getServiceTemplateSettings or create (template trigger), or create or the
\* resource lookup (plugin trigger), throws at the k-th of N targets, the
\* trigger fails with that error as it is, the alerts of targets 1..k-1 stay
\* New with their events handed over, and targets k+1..N get no alert and no
\* event.
C11_FailureAbortsFanOutWithoutRollback ==
  FanOutFailed(last) =>
    LET k == last.fault.at
        n == Len(last.targets)
    IN /\ k <= n
       /\ {last.targets[i] : i \in 1..n} = (IF last.op = "triggerAlertsForTemplateVersion"
                                              THEN ServicesOf(last.id)
                                              ELSE InstallationsOf(last))
       /\ last.result = "Error"
       /\ \A i \in 1..(k - 1) :
            /\ Cardinality(CreatedForTarget(last, i)) = 1
            /\ \A a \in CreatedForTarget(last, i) : alerts[a].status = "New"
            /\ Cardinality(EventsForTarget(last, i)) = 1
       /\ \A i \in (k + 1)..n :
            /\ CreatedForTarget(last, i) = {}
            /\ EventsForTarget(last, i) = {}
       /\ EventsForTarget(last, k) = {}
       /\ Len(emitted) = k - 1

\* a call threw at the second of two targets: the first target's alert is
\* New in the table and its event was handed over
C11_Witness ==
  /\ FanOutFailed(last)
  /\ last.fault.at = 2
  /\ Len(last.targets) = 2
  /\ last.result = "Error"
  /\ Len(emitted) = 1
  /\ \E a \in CreatedForTarget(last, 1) : alerts[a].status = "New"

\* a call threw at the first of two targets: the second target got nothing
C11_WitnessFirst ==
  /\ FanOutFailed(last)
  /\ last.fault.at = 1
  /\ Len(last.targets) = 2
  /\ CreatedForTarget(last, 2) = {}
  /\ emitted = <<>>

====
